---- MODULE Spec2Model ----
(***************************************************************************)
(* The free-list allocator of src/src/alloc.rs together with the part of   *)
(* the Linux virtual-memory interface it calls (mmap, mprotect, munmap).   *)
(*                                                                         *)
(* Addresses and sizes are byte counts.  The address space is a row of     *)
(* pages: page 0 is never mapped, the heap reservation follows, and the    *)
(* pages after it are where the kernel places the independent mappings of  *)
(* sys::alloc.  The first of those pages may belong to somebody else (a    *)
(* mapping of the process that the allocator does not own).                *)
(*                                                                         *)
(* Two kernels are modelled.  Linux (Spec) returns EINVAL from mprotect    *)
(* for an address that is not a multiple of the page size.  POSIX leaves   *)
(* that requirement to the implementation: a kernel without it changes the *)
(* pages that contain the range (SpecUnaligned), and on it the pool grows  *)
(* past its first block.  SpecWord is Spec with request sizes from both    *)
(* ends of the usize range, in a debug or a release build.                 *)
(*                                                                         *)
(* A usize is written in two's complement: a word with its top bit set is  *)
(* the negative number 2^64 below it, so that + wraps as the machine's     *)
(* does.  Every modelled word lies within 2^30 of 0 or of 2^64, so bits    *)
(* 31..63 of a word are all 0 or all 1.                                    *)
(***************************************************************************)
EXTENDS Integers, Sequences, FiniteSets, TLC

\* usize is 64 bits wide (MAX_HEAP_SIZE = 2 << 32 needs it).
WordBits == 64

\* sysconf(_SC_PAGE_SIZE) on the host.
PageSize == 4096

\* size_of::<Header>(): one usize.
HeaderSize == 8

SUBHEAP_COUNT == 7

\* The reservation is MaxHeapPages pages long (2 << 32 bytes in the source).
MaxHeapPages == 2

\* Pages after the reservation in which sys::alloc mappings can be placed.
NumExtPages == 2

\* The calls a caller makes in SpecUnaligned.
MaxCalls == 9

MAX_HEAP_SIZE == MaxHeapPages * PageSize

RECURSIVE Pow2(_)
Pow2(n) == IF n = 0 THEN 1 ELSE 2 * Pow2(n - 1)

\* 2 << (class_of_subheap + 3)
block_size_of_subheap(class_of_subheap) == 2 * Pow2(class_of_subheap + 3)

MAX_BLOCK_SIZE == block_size_of_subheap(SUBHEAP_COUNT - 1)

\* Bit i of a usize.
Bit(x, i) == IF i > 30 THEN (IF x < 0 THEN 1 ELSE 0) ELSE (x \div Pow2(i)) % 2

\* a <= b on usize.
ULe(a, b) == IF (a < 0) = (b < 0) THEN a <= b ELSE b < 0

\* a + b on usize leaves the word range (b is a small positive number).
AddOverflows(a, b) == a < 0 /\ a + b >= 0

\* original.reverse_bits() & mask, bit by bit from bit j upwards: bit j of the
\* reversed word is bit WordBits-1-j of the original.
RECURSIVE reverse_bits_and(_, _, _)
reverse_bits_and(original, mask, j) ==
    IF Pow2(j) > mask THEN 0
    ELSE Bit(mask, j) * Bit(original, WordBits - 1 - j) * Pow2(j)
         + reverse_bits_and(original, mask, j + 1)

aligned_size(original, alignment) ==
    LET mask == alignment - 1
    IN  original + reverse_bits_and(original, mask, 0)

\* The addition in aligned_size overflows.
aligned_size_overflows(original, alignment) ==
    AddOverflows(original, reverse_bits_and(original, alignment - 1, 0))

\* class_for_len with the comparison of the loop made strict.
RECURSIVE class_for_len_strict(_, _)
class_for_len_strict(len, c) ==
    IF c = SUBHEAP_COUNT THEN SUBHEAP_COUNT - 1
    ELSE IF len < block_size_of_subheap(c) THEN c
    ELSE class_for_len_strict(len, c + 1)

\* The class the loop of alloc_by_size picks, scanning from class c upwards.
RECURSIVE class_for_len(_, _)
class_for_len(len, c) ==
    IF c = SUBHEAP_COUNT THEN SUBHEAP_COUNT - 1
    ELSE IF len <= block_size_of_subheap(c) THEN c
    ELSE class_for_len(len, c + 1)

Mprotect == 0
MmapFixed == 1

NULL == 0

(***************************************************************************)
(* The address space.                                                      *)
(***************************************************************************)
HeapBeginPage == 1
heap_begin == HeapBeginPage * PageSize
FirstExtPage == HeapBeginPage + MaxHeapPages
ExtPages == FirstExtPage .. (FirstExtPage + NumExtPages - 1)
Pages == 0 .. (FirstExtPage + NumExtPages - 1)
HeapPages == HeapBeginPage .. (FirstExtPage - 1)

PageOf(addr) == addr \div PageSize
PageAligned(addr) == addr % PageSize = 0

\* The pages the kernel touches for the byte range [addr, addr + len).
PagesOfRange(addr, len) ==
    IF len = 0 THEN {}
    ELSE { p \in Pages : PageOf(addr) <= p /\ p <= PageOf(addr + len - 1) }

\* Words a foreign mapping can hold where the allocator reads a header.
GarbageWords == { 3, SUBHEAP_COUNT, PageSize }

\* Request sizes: 1, size_of::<i32>(), the two sides of the first class edge,
\* a middle class and the largest pooled size; and two external sizes, the
\* second of which needs a second page.
PooledSizes == { 1, 4, block_size_of_subheap(0), block_size_of_subheap(0) + 1,
                 block_size_of_subheap(3), MAX_BLOCK_SIZE }
ExternalSizes == { MAX_BLOCK_SIZE + 1, PageSize - HeaderSize + 1 }
Sizes == PooledSizes \cup ExternalSizes

\* The request sizes of SpecUnaligned: the two largest classes, which fill the
\* reservation in a few calls.
GrowthSizes == { block_size_of_subheap(SUBHEAP_COUNT - 2), MAX_BLOCK_SIZE }

\* The request sizes of SpecWord: usize::MAX, the size that the header brings
\* to 0, the one before it, and sizes of both paths from the low end.
TopSizes == { 0 - 1, 0 - HeaderSize, 0 - HeaderSize - 1 }
WordSizes == { 4, MAX_BLOCK_SIZE, MAX_BLOCK_SIZE + 1 } \cup TopSizes

VARIABLES
    pagesize,               \* Allocator.pagesize
    heap_end,               \* Allocator.heap_end
    free_lists,             \* Allocator.free_lists: class -> address of a FreeHeader, or NULL
    active_heap_end,        \* Allocator.active_heap_end
    commited_heap_end,      \* Allocator.commited_heap_end
    prefer_commit_strategy, \* Allocator.prefer_commit_strategy
    mem,                    \* the words written so far: address -> value (other mapped words are 0)
    prot,                   \* the kernel's page table: page -> "unmapped" | "none" | "rw" | "foreign"
    pc,                     \* "run", or how the process ended: "segv" | "panic"
    live,                   \* what the caller holds: address -> the path that served it, the
                            \* bytes it may use, and the block or mapping behind it
    freed,                  \* per class, the pooled addresses freed and not reused, newest first
    last,                   \* the last call, its result and the OS calls it made
    scenario,               \* 0 fresh, 1 after a first allocate(4), 2 after a second one that
                            \* the kernel did not refuse, 3 otherwise
    unaligned_ok,           \* whether the kernel's mprotect takes an address that is not a
                            \* multiple of the page size
    calls_left,             \* the calls the caller of SpecUnaligned has yet to make
    overflow_checks,        \* whether the build panics on arithmetic overflow (a debug
                            \* build) or wraps (a release build)
    carved                  \* the blocks extend_active_heap_end has carved, oldest first:
                            \* the address of each Header and its class

vars == << pagesize, heap_end, free_lists, active_heap_end, commited_heap_end,
           prefer_commit_strategy, mem, prot, pc, live, freed, last, scenario,
           unaligned_ok, calls_left, overflow_checks, carved >>

NoCall == [ op |-> "init", n |-> 0, ptr |-> NULL, ok |-> TRUE, ret |-> NULL,
            path |-> "none", kind |-> "none", class |-> 0, src |-> "none",
            expect |-> NULL, was_live |-> FALSE, base |-> NULL, len |-> 0,
            calls |-> << >> ]

\* Allocator::init, with the reservation placed at heap_begin.
AllocatorInit ==
    /\ pagesize = PageSize
    /\ heap_end = heap_begin + MAX_HEAP_SIZE
    /\ free_lists = [ c \in 0 .. (SUBHEAP_COUNT - 1) |-> NULL ]
    /\ active_heap_end = heap_begin
    /\ commited_heap_end = heap_begin
    /\ prefer_commit_strategy = Mprotect
    /\ \E fp \in {0, FirstExtPage}, w \in GarbageWords :
          /\ prot = [ p \in Pages |-> IF p \in HeapPages THEN "none"
                                      ELSE IF p = fp /\ fp # 0 THEN "foreign"
                                      ELSE "unmapped" ]
          /\ mem = IF fp = 0 THEN << >>
                   ELSE ((fp + 1) * PageSize - HeaderSize) :> w
          /\ (fp = 0 => w = 3)
    /\ pc = "run"
    /\ live = << >>
    /\ freed = [ c \in 0 .. (SUBHEAP_COUNT - 1) |-> << >> ]
    /\ last = NoCall
    /\ scenario = 0
    /\ carved = << >>

\* Allocator::init on Linux.  No request of Sizes makes an addition
\* overflow, so the build's overflow checks make no difference.
Init ==
    /\ AllocatorInit
    /\ unaligned_ok = FALSE
    /\ calls_left = 0
    /\ overflow_checks = FALSE

(***************************************************************************)
(* Memory.                                                                 *)
(***************************************************************************)
Readable(addr) == PageOf(addr) \in Pages /\ prot[PageOf(addr)] \in { "rw", "foreign" }
Load(m, addr) == IF addr \in DOMAIN m THEN m[addr] ELSE 0
Store(m, addr, v) == (addr :> v) @@ m
\* A fresh anonymous mapping over pages ps reads as zero.
Wipe(m, ps) == [ a \in { b \in DOMAIN m : PageOf(b) \notin ps } |-> m[a] ]

(***************************************************************************)
(* The kernel calls made through libc.  mmap(MAP_FIXED) and munmap return  *)
(* EINVAL for an address that is not a multiple of the page size, and so   *)
(* does mprotect unless unaligned_ok; a well-formed request can still be   *)
(* refused (ENOMEM, or a kernel without the call), which the `willing`     *)
(* arguments choose.                                                       *)
(***************************************************************************)
OsCall(fn, addr, len, ok) == [ fn |-> fn, addr |-> addr, len |-> len, ok |-> ok ]

mprotect_ok(addr, len, willing) ==
    /\ willing
    /\ (PageAligned(addr) \/ unaligned_ok)
    /\ \A p \in PagesOfRange(addr, len) : prot[p] # "unmapped"

mmap_fixed_ok(addr, len, willing) ==
    /\ willing
    /\ PageAligned(addr)
    /\ len > 0

\* sys_commit that reports Mprotect whichever call worked.
sys_commit_says_mprotect(addr, len, prefer_strategy, w_mprotect, w_mmap) ==
    LET try_mprotect == prefer_strategy <= Mprotect
        by_mprotect  == try_mprotect /\ mprotect_ok(addr, len, w_mprotect)
        by_mmap      == ~by_mprotect /\ mmap_fixed_ok(addr, len, w_mmap)
        ps           == PagesOfRange(addr, len)
    IN  [ ok       |-> by_mprotect \/ by_mmap,
          strategy |-> Mprotect,
          prot     |-> IF by_mprotect \/ by_mmap
                       THEN [ p \in Pages |-> IF p \in ps THEN "rw" ELSE prot[p] ]
                       ELSE prot,
          mem      |-> IF by_mmap THEN Wipe(mem, ps) ELSE mem,
          calls    |-> (IF try_mprotect
                        THEN << OsCall("mprotect", addr, len, by_mprotect) >> ELSE << >>)
                       \o (IF by_mprotect
                           THEN << >> ELSE << OsCall("mmap_fixed", addr, len, by_mmap) >>),
          refused  |-> /\ PageAligned(addr) \/ (try_mprotect /\ unaligned_ok)
                       /\ ~(by_mprotect \/ by_mmap) ]

\* sys_commit that tries mprotect whatever strategy is preferred.
sys_commit_always_mprotect(addr, len, prefer_strategy, w_mprotect, w_mmap) ==
    LET try_mprotect == TRUE
        by_mprotect  == try_mprotect /\ mprotect_ok(addr, len, w_mprotect)
        by_mmap      == ~by_mprotect /\ mmap_fixed_ok(addr, len, w_mmap)
        ps           == PagesOfRange(addr, len)
    IN  [ ok       |-> by_mprotect \/ by_mmap,
          strategy |-> IF by_mprotect THEN Mprotect ELSE MmapFixed,
          prot     |-> IF by_mprotect \/ by_mmap
                       THEN [ p \in Pages |-> IF p \in ps THEN "rw" ELSE prot[p] ]
                       ELSE prot,
          mem      |-> IF by_mmap THEN Wipe(mem, ps) ELSE mem,
          calls    |-> (IF try_mprotect
                        THEN << OsCall("mprotect", addr, len, by_mprotect) >> ELSE << >>)
                       \o (IF by_mprotect
                           THEN << >> ELSE << OsCall("mmap_fixed", addr, len, by_mmap) >>),
          refused  |-> /\ PageAligned(addr) \/ (try_mprotect /\ unaligned_ok)
                       /\ ~(by_mprotect \/ by_mmap) ]

\* sys::commit: the strategy that worked, the page table and memory after it,
\* and the calls made.  refused: a well-formed request that the kernel refused.
sys_commit(addr, len, prefer_strategy, w_mprotect, w_mmap) ==
    LET try_mprotect == prefer_strategy <= Mprotect
        by_mprotect  == try_mprotect /\ mprotect_ok(addr, len, w_mprotect)
        by_mmap      == ~by_mprotect /\ mmap_fixed_ok(addr, len, w_mmap)
        ps           == PagesOfRange(addr, len)
    IN  [ ok       |-> by_mprotect \/ by_mmap,
          strategy |-> IF by_mprotect THEN Mprotect ELSE MmapFixed,
          prot     |-> IF by_mprotect \/ by_mmap
                       THEN [ p \in Pages |-> IF p \in ps THEN "rw" ELSE prot[p] ]
                       ELSE prot,
          mem      |-> IF by_mmap THEN Wipe(mem, ps) ELSE mem,
          calls    |-> (IF try_mprotect
                        THEN << OsCall("mprotect", addr, len, by_mprotect) >> ELSE << >>)
                       \o (IF by_mprotect
                           THEN << >> ELSE << OsCall("mmap_fixed", addr, len, by_mmap) >>),
          refused  |-> /\ PageAligned(addr) \/ (try_mprotect /\ unaligned_ok)
                       /\ ~(by_mprotect \/ by_mmap) ]

\* Where the kernel can place a fresh mapping of len bytes: the first page of a
\* run of unmapped pages long enough for it.
Placements(len) ==
    { b \in ExtPages :
        /\ len > 0
        /\ \A p \in PagesOfRange(b * PageSize, len) : prot[p] = "unmapped"
        /\ PageOf(b * PageSize + len - 1) \in ExtPages }

\* sys::alloc: a fresh read/write mapping at page b, or a failure when b = 0.
sys_alloc(len, b) ==
    LET ok == b \in Placements(len)
        ps == PagesOfRange(b * PageSize, len)
    IN  [ ok    |-> ok,
          addr  |-> IF ok THEN b * PageSize ELSE NULL,
          prot  |-> IF ok THEN [ p \in Pages |-> IF p \in ps THEN "rw" ELSE prot[p] ]
                    ELSE prot,
          mem   |-> IF ok THEN Wipe(mem, ps) ELSE mem,
          calls |-> << OsCall("mmap", IF ok THEN b * PageSize ELSE NULL, len, ok) >> ]

\* sys::release: munmap of [addr, addr + len).
sys_release(addr, len) ==
    LET ok == PageAligned(addr) /\ len > 0
        ps == PagesOfRange(addr, len)
    IN  [ ok    |-> ok,
          prot  |-> IF ok THEN [ p \in Pages |-> IF p \in ps THEN "unmapped" ELSE prot[p] ]
                    ELSE prot,
          mem   |-> IF ok THEN Wipe(mem, ps) ELSE mem,
          calls |-> << OsCall("munmap", addr, len, ok) >> ]

(***************************************************************************)
(* The allocator's functions.  Each gives the Result it returns, the       *)
(* fields and memory it leaves behind, and the kernel calls it made.       *)
(***************************************************************************)
ClassRange == 0 .. (SUBHEAP_COUNT - 1)

\* What a function that changed nothing hands back.
Unchanged(ok, calls, refused) ==
    [ ok |-> ok, ret |-> NULL, path |-> "none", class |-> 0, src |-> "none",
      base |-> NULL, len |-> 0,
      free_lists |-> free_lists, active |-> active_heap_end,
      commited |-> commited_heap_end, prefer |-> prefer_commit_strategy,
      mem |-> mem, prot |-> prot, calls |-> calls, refused |-> refused, pc |-> "run" ]

\* next_commited_heap_end that leaves the cursor where it was.
next_commited_heap_end_stale(commited, committed_size) == commited

\* next_commited_heap_end that moves the cursor down instead of up.
next_commited_heap_end_sub(commited, committed_size) == commited - committed_size

\* self.commited_heap_end.as_ptr().add(committed_size)
next_commited_heap_end(commited, committed_size) == commited + committed_size

\* next_active_heap_end that leaves the header out of the advance.
next_active_heap_end_short(active, allocated_size) == active + allocated_size - HeaderSize

\* self.active_heap_end.as_ptr().add(allocated_size)
next_active_heap_end(active, allocated_size) == active + allocated_size

\* heap_exhausted that lets the pool grow past the reservation.
heap_exhausted_never(new_active_heap_end) == FALSE

\* self.heap_end < new_active_heap_end
heap_exhausted(new_active_heap_end) == heap_end < new_active_heap_end

\* commit_failed that carries on after a failed commit.
commit_failed_ignored(c) == FALSE

\* The `?` after sys::commit(...): an Err leaves the function.
commit_failed(c) == ~c.ok

\* Allocator::extend_active_heap_end.  ret is the address of the new Header.
extend_active_heap_end(class_of_subheap, w_mprotect, w_mmap) ==
    LET allocated_size      == HeaderSize + block_size_of_subheap(class_of_subheap)
        new_active_heap_end == next_active_heap_end(active_heap_end, allocated_size)
        need_commit         == commited_heap_end < new_active_heap_end
        committed_size      == aligned_size(new_active_heap_end - active_heap_end, pagesize)
        c == sys_commit(commited_heap_end, committed_size, prefer_commit_strategy,
                        w_mprotect, w_mmap)
    IN  IF heap_exhausted(new_active_heap_end)
        THEN Unchanged(FALSE, << >>, FALSE)
        ELSE IF need_commit /\ commit_failed(c)
        THEN Unchanged(FALSE, c.calls, c.refused)
        ELSE [ Unchanged(TRUE, IF need_commit THEN c.calls ELSE << >>, FALSE) EXCEPT
                 !.ret      = active_heap_end,
                 !.path     = "subheap",
                 !.class    = class_of_subheap,
                 !.src      = "carved",
                 !.base     = active_heap_end,
                 !.len      = allocated_size,
                 !.active   = new_active_heap_end,
                 !.commited = IF need_commit
                              THEN next_commited_heap_end(commited_heap_end, committed_size)
                              ELSE commited_heap_end,
                 !.prefer   = IF need_commit THEN c.strategy ELSE prefer_commit_strategy,
                 !.prot     = IF need_commit THEN c.prot ELSE prot,
                 !.mem      = Store(IF need_commit THEN c.mem ELSE mem,
                                    active_heap_end, class_of_subheap) ]

\* Allocator::alloc_on_subheap.  FreeHeader.next lies HeaderSize bytes into the
\* block, after FreeHeader.header.
alloc_on_subheap(class_of_subheap, w_mprotect, w_mmap) ==
    LET free_ptr == free_lists[class_of_subheap]
        e == extend_active_heap_end(class_of_subheap, w_mprotect, w_mmap)
    IN  IF free_ptr = NULL
        THEN IF e.ok THEN [ e EXCEPT !.ret = e.ret + HeaderSize ]
             ELSE [ e EXCEPT !.path = "subheap", !.class = class_of_subheap ]
        ELSE [ Unchanged(TRUE, << >>, FALSE) EXCEPT
                 !.ret        = free_ptr + HeaderSize,
                 !.path       = "subheap",
                 !.class      = class_of_subheap,
                 !.src        = "popped",
                 !.base       = free_ptr,
                 !.len        = HeaderSize + block_size_of_subheap(class_of_subheap),
                 !.free_lists = [ free_lists EXCEPT ![class_of_subheap] =
                                    Load(mem, free_ptr + HeaderSize) ] ]

\* Allocator::alloc_on_external.  The address returned is allocated_ptr itself.
\* With overflow checks an addition that overflows panics.
alloc_on_external(len, b) ==
    LET allocated_size == aligned_size(len + HeaderSize, pagesize)
        a == sys_alloc(allocated_size, b)
    IN  IF overflow_checks /\ ( \/ AddOverflows(len, HeaderSize)
                                \/ aligned_size_overflows(len + HeaderSize, pagesize) )
        THEN [ Unchanged(FALSE, << >>, FALSE) EXCEPT !.path = "external", !.pc = "panic" ]
        ELSE IF ~a.ok
        THEN [ Unchanged(FALSE, a.calls, TRUE) EXCEPT !.path = "external",
                                                      !.len = allocated_size ]
        ELSE [ Unchanged(TRUE, a.calls, FALSE) EXCEPT
                 !.ret  = a.addr,
                 !.path = "external",
                 !.src  = "mapped",
                 !.base = a.addr,
                 !.len  = allocated_size,
                 !.prot = a.prot,
                 !.mem  = Store(a.mem, a.addr, allocated_size) ]

\* alloc_by_size that sends a request of MAX_BLOCK_SIZE bytes to the external path.
alloc_by_size_strict(len, w_mprotect, w_mmap, b) ==
    IF len < MAX_BLOCK_SIZE
    THEN alloc_on_subheap(class_for_len(len, 0), w_mprotect, w_mmap)
    ELSE alloc_on_external(len, b)

\* Allocator::alloc_by_size
alloc_by_size(len, w_mprotect, w_mmap, b) ==
    IF ULe(len, MAX_BLOCK_SIZE)
    THEN alloc_on_subheap(class_for_len(len, 0), w_mprotect, w_mmap)
    ELSE alloc_on_external(len, b)

\* Allocator::free_on_subheap.  Indexing free_lists outside 0..SUBHEAP_COUNT-1
\* panics before anything is written.
free_on_subheap(addr, class_of_subheap) ==
    IF class_of_subheap \notin ClassRange
    THEN [ Unchanged(FALSE, << >>, FALSE) EXCEPT !.path = "panic", !.pc = "panic",
                                                 !.class = class_of_subheap ]
    ELSE [ Unchanged(TRUE, << >>, FALSE) EXCEPT
             !.path       = "subheap",
             !.class      = class_of_subheap,
             !.mem        = Store(mem, addr + HeaderSize, free_lists[class_of_subheap]),
             !.free_lists = [ free_lists EXCEPT ![class_of_subheap] = addr ] ]

\* Allocator::free_on_external
free_on_external(addr, size) ==
    LET r == sys_release(addr, size)
    IN  [ Unchanged(r.ok, r.calls, FALSE) EXCEPT
            !.path = "external", !.class = size, !.prot = r.prot, !.mem = r.mem ]

\* Allocator::free.  The Header is read HeaderSize bytes below ptr; a read from
\* a page without read access ends the process.
free(ptr) ==
    LET allocated_ptr == ptr - HeaderSize
        size_or_class_of_subheap == Load(mem, allocated_ptr)
    IN  IF ~Readable(allocated_ptr)
        THEN [ Unchanged(FALSE, << >>, FALSE) EXCEPT !.path = "segv", !.pc = "segv" ]
        ELSE IF size_or_class_of_subheap <= MAX_BLOCK_SIZE
        THEN free_on_subheap(allocated_ptr, size_or_class_of_subheap)
        ELSE free_on_external(allocated_ptr, size_or_class_of_subheap)

(***************************************************************************)
(* The calls of a caller that keeps the contract: it allocates, and it     *)
(* frees addresses it holds.                                               *)
(***************************************************************************)
Top(s) == IF s = << >> THEN NULL ELSE Head(s)
Without(s, x) == SelectSeq(s, LAMBDA y : y # x)

Install(r) ==
    /\ free_lists' = r.free_lists
    /\ active_heap_end' = r.active
    /\ commited_heap_end' = r.commited
    /\ prefer_commit_strategy' = r.prefer
    /\ mem' = r.mem
    /\ prot' = r.prot
    /\ pc' = r.pc
    /\ UNCHANGED << pagesize, heap_end, unaligned_ok, overflow_checks >>

\* What the kernel may answer during one allocate: whether it is willing to
\* mprotect and to mmap(MAP_FIXED) for a pooled request, and the page where it
\* places the mapping (0: it fails) for an external one.
OsAnswers(len) ==
    IF ULe(len, MAX_BLOCK_SIZE)
    THEN { [ w_mprotect |-> w[1], w_mmap |-> w[2], b |-> 0 ] :
             w \in { << TRUE, TRUE >>, << FALSE, TRUE >>, << FALSE, FALSE >> } }
    ELSE { [ w_mprotect |-> FALSE, w_mmap |-> FALSE, b |-> b ] : b \in {0} \cup ExtPages }

AllocBySize(len) ==
    /\ pc = "run"
    /\ \E os \in OsAnswers(len) :
        \E r \in { alloc_by_size(len, os.w_mprotect, os.w_mmap, os.b) } :
         LET kind == IF r.path = "subheap" THEN "pooled" ELSE "external"
         IN  /\ Install(r)
             /\ live' = IF r.ok
                        THEN (r.ret :> [ kind |-> kind, class |-> r.class,
                                         usable |-> IF kind = "pooled"
                                                    THEN block_size_of_subheap(r.class)
                                                    ELSE len,
                                         base |-> r.base, len |-> r.len ]) @@ live
                        ELSE live
             /\ freed' = IF r.ok /\ kind = "pooled"
                         THEN [ freed EXCEPT ![r.class] = Without(@, r.ret) ]
                         ELSE freed
             /\ last' = [ NoCall EXCEPT
                            !.op = "alloc", !.n = len, !.ok = r.ok, !.ret = r.ret,
                            !.path = r.path, !.class = r.class, !.src = r.src,
                            !.expect = IF kind = "pooled" THEN Top(freed[r.class]) ELSE NULL,
                            !.was_live = r.ok /\ r.ret \in DOMAIN live,
                            !.base = r.base, !.len = r.len, !.calls = r.calls ]
             /\ carved' = IF r.ok /\ r.src = "carved"
                          THEN Append(carved, [ addr |-> r.base, class |-> r.class ])
                          ELSE carved
             /\ scenario' = IF scenario = 0 /\ len = 4 /\ r.ok THEN 1
                            ELSE IF scenario = 1 /\ len = 4 /\ ~r.refused THEN 2
                            ELSE 3

Free(ptr) ==
    /\ pc = "run"
    /\ ptr \in DOMAIN live
    /\ \E r \in { free(ptr) } :
           /\ Install(r)
           /\ live' = [ a \in DOMAIN live \ {ptr} |-> live[a] ]
           /\ freed' = IF live[ptr].kind = "pooled"
                       THEN [ freed EXCEPT ![live[ptr].class] = << ptr >> \o @ ]
                       ELSE freed
           /\ last' = [ NoCall EXCEPT
                          !.op = "free", !.ptr = ptr, !.ok = r.ok, !.path = r.path,
                          !.kind = live[ptr].kind, !.class = r.class,
                          !.base = live[ptr].base, !.len = live[ptr].len,
                          !.calls = r.calls ]
           /\ scenario' = 3
           /\ UNCHANGED carved

Next ==
    \/ \E len \in Sizes : AllocBySize(len) /\ UNCHANGED calls_left
    \/ \E ptr \in DOMAIN live : Free(ptr) /\ UNCHANGED calls_left

Spec == Init /\ [][Next]_vars

\* Allocator::init on a kernel whose mprotect takes any address, with no
\* foreign mapping next to the reservation.
InitUnaligned ==
    /\ AllocatorInit
    /\ prot[FirstExtPage] = "unmapped"
    /\ unaligned_ok = TRUE
    /\ calls_left = MaxCalls
    /\ overflow_checks = FALSE

\* A caller of pooled sizes that makes MaxCalls calls.
NextUnaligned ==
    /\ calls_left > 0
    /\ calls_left' = calls_left - 1
    /\ \/ \E len \in GrowthSizes : AllocBySize(len)
       \/ \E ptr \in DOMAIN live : Free(ptr)

SpecUnaligned == InitUnaligned /\ [][NextUnaligned]_vars

\* Allocator::init on Linux, in a debug or a release build.
InitWord ==
    /\ AllocatorInit
    /\ unaligned_ok = FALSE
    /\ calls_left = 0
    /\ overflow_checks \in BOOLEAN

\* A caller whose requests come from both ends of the usize range.
NextWord ==
    \/ \E len \in WordSizes : AllocBySize(len) /\ UNCHANGED calls_left
    \/ \E ptr \in DOMAIN live : Free(ptr) /\ UNCHANGED calls_left

SpecWord == InitWord /\ [][NextWord]_vars

(***************************************************************************)
(* Properties.                                                             *)
(***************************************************************************)
AllocReturned == last.op = "alloc" /\ last.ok
PooledReturned == AllocReturned /\ last.path = "subheap"
ExternalReturned == AllocReturned /\ last.path = "external"

\* The byte range of a live allocation, from the word free reads to the last
\* byte the caller may use.
RegionLo(a) == a - HeaderSize
RegionHi(a) == a + live[a].usable

\* c is the smallest class whose block size is at least n.
SmallestClassFor(n, c) ==
    /\ c \in ClassRange
    /\ block_size_of_subheap(c) >= n
    /\ \A d \in ClassRange : d < c => block_size_of_subheap(d) < n

\* C1: a successful allocate of 0 < n <= MAX_BLOCK_SIZE bytes returns an address
\* whose preceding word is readable and holds the smallest class whose block
\* size is at least n, whether the block was carved or popped; and the class
\* alloc_by_size picks is that class for every such n (a fact that does not
\* depend on the state, so it is evaluated in the initial states only).
C1_HeaderIsSmallestClass ==
    /\ (AllocReturned /\ 0 < last.n /\ last.n <= MAX_BLOCK_SIZE) =>
          /\ last.src \in { "carved", "popped" }
          /\ Readable(last.ret - HeaderSize)
          /\ SmallestClassFor(last.n, Load(mem, last.ret - HeaderSize))
    /\ (last.op = "init") =>
          \A n \in 1 .. MAX_BLOCK_SIZE : SmallestClassFor(n, class_for_len(n, 0))

\* A block of class 1 popped from its free list for a request of 17 bytes.
C1_Witness ==
    /\ PooledReturned
    /\ last.src = "popped"
    /\ last.n = block_size_of_subheap(0) + 1
    /\ Load(mem, last.ret - HeaderSize) = 1

\* C2: free takes the subheap path exactly for the addresses the pooled path
\* returned and the external path exactly for those the external path returned.
C2_FreeTakesCreatingPath ==
    (last.op = "free") =>
        /\ (last.path = "subheap") <=> (last.kind = "pooled")
        /\ (last.path = "external") <=> (last.kind = "external")

\* C3: reservation_start <= active_heap_end <= commited_heap_end <= heap_end,
\* with heap_end = reservation_start + MAX_HEAP_SIZE, in every state.
C3_CursorOrder ==
    /\ heap_begin <= active_heap_end
    /\ active_heap_end <= commited_heap_end
    /\ commited_heap_end <= heap_end
    /\ heap_end = heap_begin + MAX_HEAP_SIZE

\* The heap has grown and a later pooled allocate has failed.
C3_Witness ==
    /\ active_heap_end > heap_begin
    /\ last.op = "alloc" /\ ~last.ok /\ last.path = "subheap"

\* C4: no step lowers active_heap_end or commited_heap_end.
C4_CursorsNeverDecrease ==
    [][ /\ active_heap_end' >= active_heap_end
        /\ commited_heap_end' >= commited_heap_end ]_vars

\* Both cursors have moved up and a free has run since.
C4_Witness ==
    /\ active_heap_end > heap_begin
    /\ commited_heap_end > heap_begin
    /\ last.op = "free" /\ last.ok

\* C5: a pooled allocate that finds a freed, not yet reused block of its class,
\* or that is served from the free list, returns the most recently freed one.
C5_ReuseIsLifo ==
    (PooledReturned /\ (last.src = "popped" \/ last.expect # NULL)) =>
        last.ret = last.expect

\* C6: live allocations have distinct addresses and disjoint regions, and two
\* allocate(4) calls right after init return two distinct addresses.
LiveRegionsDisjoint ==
    /\ ~last.was_live
    /\ \A a \in DOMAIN live : \A b \in DOMAIN live :
         a # b => (RegionHi(a) <= RegionLo(b) \/ RegionHi(b) <= RegionLo(a))

C6_DistinctLiveAllocations ==
    /\ LiveRegionsDisjoint
    /\ (scenario = 2) =>
          /\ last.ok
          /\ \E a \in DOMAIN live : a # last.ret /\ last.ret \in DOMAIN live

\* C7: a live pooled block lies in the committed part of the reservation, in
\* read/write pages; a live external allocation of n bytes lies in its mapping
\* and does not contain its own header word.
C7_BackedAndOwned ==
    \A a \in DOMAIN live :
        IF live[a].kind = "pooled"
        THEN /\ heap_begin <= live[a].base
             /\ RegionHi(a) <= commited_heap_end
             /\ \A p \in PagesOfRange(live[a].base, RegionHi(a) - live[a].base) :
                  prot[p] = "rw"
        ELSE /\ live[a].base <= a
             /\ \A p \in PagesOfRange(a, live[a].usable) :
                  /\ prot[p] = "rw"
                  /\ p \in PagesOfRange(live[a].base, live[a].len)
             /\ ~(a <= live[a].base /\ live[a].base < RegionHi(a))

\* C8: a successful allocate of n > MAX_BLOCK_SIZE bytes returns the base of
\* the fresh mapping plus the header size, and the word before the returned
\* address holds the size of the mapping, which is above MAX_BLOCK_SIZE.
C8_ExternalReturnsPayload ==
    (ExternalReturned /\ last.n > MAX_BLOCK_SIZE) =>
        /\ last.ret = last.base + HeaderSize
        /\ Readable(last.ret - HeaderSize)
        /\ Load(mem, last.ret - HeaderSize) = last.len
        /\ last.len > MAX_BLOCK_SIZE

\* C9: the length an external allocate asks of the kernel is n + header size
\* rounded up to whole pages.
C9_ExternalLengthPageRounded ==
    (last.op = "alloc" /\ last.path = "external") =>
        /\ Len(last.calls) = 1
        /\ last.calls[1].fn = "mmap"
        /\ last.calls[1].len = last.len
        /\ last.len % pagesize = 0
        /\ last.len >= last.n + HeaderSize
        /\ last.len < last.n + HeaderSize + pagesize

\* C10: free of a live external allocation makes exactly one kernel release,
\* of the base and length that were mapped for it, and the mapping is gone.
C10_ExternalFreeReleasesMapping ==
    (last.op = "free" /\ last.kind = "external") =>
        /\ last.calls = << OsCall("munmap", last.base, last.len, TRUE) >>
        /\ \A p \in PagesOfRange(last.base, last.len) : prot[p] = "unmapped"
        /\ \A c \in ClassRange : free_lists[c] # last.base - HeaderSize

(***************************************************************************)
(* Properties of pooled growth.  In a step of allocate, last' is the call  *)
(* and the unprimed variables are the allocator before it.                 *)
(***************************************************************************)
AllocatorFields == << active_heap_end, commited_heap_end, free_lists,
                      prefer_commit_strategy >>

\* The step is a pooled allocate that finds the free list of its class empty.
GrowthStep ==
    /\ last'.op = "alloc"
    /\ last'.path = "subheap"
    /\ free_lists[last'.class] = NULL

\* A block of class c does not fit between active_heap_end and heap_end.
NoRoomFor(c) == active_heap_end + HeaderSize + block_size_of_subheap(c) > heap_end

\* C11: a pooled allocate that needs growth for a block that would end beyond
\* heap_end returns an error, makes no kernel call and leaves the cursors, the
\* free lists, prefer_commit_strategy, the memory and the page table as they
\* were; and while the largest class has no room the allocator still serves
\* what it can: a request whose free list is not empty returns the head of
\* that list, a request of a class that fits and whose commit succeeds is
\* carved at active_heap_end, and a free of a pooled block succeeds.
C11_ExhaustionLeavesState ==
    [][ /\ (GrowthStep /\ NoRoomFor(last'.class)) =>
              /\ ~last'.ok
              /\ last'.calls = << >>
              /\ UNCHANGED AllocatorFields
              /\ UNCHANGED << mem, prot, live >>
        /\ (NoRoomFor(SUBHEAP_COUNT - 1) /\ last'.op = "alloc" /\ last'.path = "subheap") =>
              /\ free_lists[last'.class] # NULL =>
                    /\ last'.ok
                    /\ last'.ret = free_lists[last'.class] + HeaderSize
              /\ ( /\ free_lists[last'.class] = NULL
                   /\ ~NoRoomFor(last'.class)
                   /\ \E i \in DOMAIN last'.calls : last'.calls[i].ok ) =>
                    /\ last'.ok
                    /\ last'.ret = active_heap_end + HeaderSize
        /\ (NoRoomFor(SUBHEAP_COUNT - 1) /\ last'.op = "free" /\ last'.kind = "pooled") =>
              /\ last'.ok
              /\ free_lists'[last'.class] = last'.ptr - HeaderSize
      ]_vars

\* The reservation has filled up and an allocate of the largest class has been
\* turned down without a kernel call.
C11_Witness ==
    /\ last.op = "alloc" /\ ~last.ok
    /\ last.path = "subheap" /\ last.class = SUBHEAP_COUNT - 1
    /\ last.calls = << >>
    /\ free_lists[last.class] = NULL
    /\ NoRoomFor(last.class)
    /\ ~NoRoomFor(SUBHEAP_COUNT - 2)

\* The growth of the step needs a commit: the new block would end beyond
\* commited_heap_end.
NeedsCommit(c) ==
    /\ ~NoRoomFor(c)
    /\ commited_heap_end < active_heap_end + HeaderSize + block_size_of_subheap(c)

\* C12: a pooled growth that needs a commit asks for it at commited_heap_end;
\* when every kernel call of that commit fails, allocate returns an error, the
\* cursors, the free lists and prefer_commit_strategy are unchanged and nothing
\* is written to memory, so that the next allocate of the class asks for the
\* commit at the same commited_heap_end.
C12_CommitFailureLeavesState ==
    [][ (GrowthStep /\ NeedsCommit(last'.class)) =>
          /\ last'.calls # << >>
          /\ \A i \in DOMAIN last'.calls :
                /\ last'.calls[i].fn \in { "mprotect", "mmap_fixed" }
                /\ last'.calls[i].addr = commited_heap_end
          /\ (\A i \in DOMAIN last'.calls : ~last'.calls[i].ok) =>
                /\ ~last'.ok
                /\ UNCHANGED AllocatorFields
                /\ UNCHANGED << mem, prot, live >>
      ]_vars

\* After a growth that succeeded, an allocate whose protection change and
\* fixed remap have both failed.
C12_Witness ==
    /\ last.op = "alloc" /\ ~last.ok /\ last.path = "subheap"
    /\ Len(last.calls) = 2
    /\ last.calls[1] = OsCall("mprotect", commited_heap_end, last.calls[1].len, FALSE)
    /\ last.calls[2] = OsCall("mmap_fixed", commited_heap_end, last.calls[1].len, FALSE)
    /\ commited_heap_end > heap_begin
    /\ free_lists[last.class] = NULL

\* C13: allocate(n) takes the pooled path exactly when n <= MAX_BLOCK_SIZE.  A
\* request of MAX_BLOCK_SIZE bytes is served from class SUBHEAP_COUNT - 1 and
\* asks the kernel for no fresh mapping (the commit of its growth works on the
\* reservation, by mprotect or by mmap(MAP_FIXED)); a request of
\* MAX_BLOCK_SIZE + 1 bytes makes one mmap call for a fresh mapping, which is
\* placed on pages that were unmapped, and leaves the cursors, the free lists
\* and prefer_commit_strategy alone.
C13_RoutingBoundary ==
    [][ (last'.op = "alloc") =>
          /\ (last'.path = "subheap") <=> ULe(last'.n, MAX_BLOCK_SIZE)
          /\ (last'.path = "external") <=> ~ULe(last'.n, MAX_BLOCK_SIZE)
          /\ (last'.n = MAX_BLOCK_SIZE) =>
                /\ last'.class = SUBHEAP_COUNT - 1
                /\ \A i \in DOMAIN last'.calls : last'.calls[i].fn # "mmap"
                /\ last'.ok =>
                      /\ last'.src \in { "carved", "popped" }
                      /\ Load(mem', last'.ret - HeaderSize) = SUBHEAP_COUNT - 1
                      /\ last'.len = HeaderSize + MAX_BLOCK_SIZE
          /\ (last'.n = MAX_BLOCK_SIZE + 1) =>
                /\ Len(last'.calls) = 1
                /\ last'.calls[1].fn = "mmap"
                /\ UNCHANGED AllocatorFields
                /\ last'.ok =>
                      /\ last'.src = "mapped"
                      /\ \A p \in PagesOfRange(last'.base, last'.len) :
                            prot[p] = "unmapped" /\ prot'[p] = "rw"
      ]_vars

\* An allocate of MAX_BLOCK_SIZE bytes served by the pool while an allocation
\* of MAX_BLOCK_SIZE + 1 bytes, served by a mapping, is live.
C13_Witness ==
    /\ PooledReturned
    /\ last.n = MAX_BLOCK_SIZE
    /\ last.class = SUBHEAP_COUNT - 1
    /\ \E a \in DOMAIN live :
          /\ live[a].kind = "external"
          /\ live[a].usable = MAX_BLOCK_SIZE + 1
          /\ prot[PageOf(a)] = "rw"

\* C14: every kernel call of a pooled growth's commit starts at
\* commited_heap_end, which is page-aligned, and its length is a positive
\* multiple of pagesize that reaches the new active_heap_end; after every step
\* commited_heap_end - heap_begin is a multiple of pagesize, and after a
\* growth that succeeded commited_heap_end >= active_heap_end.
C14_CommitWholePages ==
    [][ /\ (last'.op = "alloc" /\ last'.path = "subheap") =>
              /\ \A i \in DOMAIN last'.calls :
                    /\ last'.calls[i].addr = commited_heap_end
                    /\ PageAligned(last'.calls[i].addr)
                    /\ last'.calls[i].len > 0
                    /\ last'.calls[i].len % pagesize = 0
                    /\ commited_heap_end + last'.calls[i].len >=
                          active_heap_end + HeaderSize + block_size_of_subheap(last'.class)
              /\ (last'.ok /\ last'.src = "carved") =>
                    commited_heap_end' >= active_heap_end'
        /\ (commited_heap_end' - heap_begin) % pagesize = 0
      ]_vars

\* C15: the header a pooled growth writes is a class index below SUBHEAP_COUNT,
\* and the header an external allocate writes, for every usize n above
\* MAX_BLOCK_SIZE, is above MAX_BLOCK_SIZE.
C15_HeaderNeverAmbiguous ==
    AllocReturned =>
        /\ (last.src = "carved") =>
              /\ Load(mem, last.base) \in ClassRange
              /\ ULe(Load(mem, last.base), MAX_BLOCK_SIZE)
        /\ (last.src = "mapped") =>
              /\ ~ULe(last.n, MAX_BLOCK_SIZE)
              /\ ~ULe(Load(mem, last.base), MAX_BLOCK_SIZE)

(***************************************************************************)
(* Properties of the free lists and of the blocks in the reservation.      *)
(***************************************************************************)
\* The blocks met from ptr along FreeHeader.next, at most fuel of them.
RECURSIVE chain(_, _)
chain(ptr, fuel) ==
    IF ptr = NULL \/ fuel = 0 THEN << >>
    ELSE << ptr >> \o chain(Load(mem, ptr + HeaderSize), fuel - 1)

\* The free list of class c, followed further than there are blocks and
\* mappings to be met.
FreeList(c) == chain(free_lists[c], Len(carved) + NumExtPages + 1)

CarvedOfClass(c) == { carved[i].addr : i \in { j \in DOMAIN carved : carved[j].class = c } }

\* C16: the free list of every class c ends in NULL without meeting a block
\* twice, holds only blocks that growth carved for class c and whose header
\* still reads c, shares no block with another list, and holds no block that
\* the caller has been given and has not freed.
C16_FreeListsWellFormed ==
    \E lists \in { [ c \in ClassRange |-> FreeList(c) ] } :
        \A c \in ClassRange :
            /\ Len(lists[c]) <= Len(carved)
            /\ \A i \in DOMAIN lists[c] :
                  /\ lists[c][i] \in CarvedOfClass(c)
                  /\ Readable(lists[c][i])
                  /\ Load(mem, lists[c][i]) = c
                  /\ (lists[c][i] + HeaderSize) \notin DOMAIN live
                  /\ \A j \in DOMAIN lists[c] : lists[c][j] = lists[c][i] => j = i
                  /\ \A d \in ClassRange \ {c} :
                        \A j \in DOMAIN lists[d] : lists[d][j] # lists[c][i]

BlockLen(c) == HeaderSize + block_size_of_subheap(c)

\* The carved blocks lie end to end from heap_begin to active_heap_end.
EndToEnd ==
    /\ (carved = << >>) => active_heap_end = heap_begin
    /\ (carved # << >>) =>
          /\ carved[1].addr = heap_begin
          /\ carved[Len(carved)].addr + BlockLen(carved[Len(carved)].class) = active_heap_end
    /\ \A i \in 1 .. (Len(carved) - 1) :
          carved[i + 1].addr = carved[i].addr + BlockLen(carved[i].class)

\* The caller holds the block at addr.
IsLive(addr) == (addr + HeaderSize) \in DOMAIN live

\* The block at addr is on the free list of class c.
OnFreeList(addr, c) == \E l \in { FreeList(c) } : \E i \in DOMAIN l : l[i] = addr

\* Every carved block is live or on the free list of its class, not both.
NoBlockLost ==
    \E lists \in { [ c \in ClassRange |-> FreeList(c) ] } :
        \A i \in DOMAIN carved :
            \E on_list \in { \E j \in DOMAIN lists[carved[i].class] :
                                 lists[carved[i].class][j] = carved[i].addr } :
                /\ carved[i].class \in ClassRange
                /\ IsLive(carved[i].addr) \/ on_list
                /\ ~(IsLive(carved[i].addr) /\ on_list)

\* C17: in every state the carved blocks, each HeaderSize +
\* block_size_of_subheap(class) long, lie end to end from heap_begin to
\* active_heap_end, and each is live or on the free list of its class; a
\* growth writes the class at the old active_heap_end, returns the address
\* after that header and advances active_heap_end by the length of the block,
\* and no other step moves active_heap_end.
C17_ActiveRegionTiled ==
    [][ /\ EndToEnd /\ NoBlockLost
        /\ EndToEnd' /\ NoBlockLost'
        /\ (GrowthStep /\ last'.ok) =>
              /\ last'.src = "carved"
              /\ active_heap_end' = active_heap_end + BlockLen(last'.class)
              /\ Load(mem', active_heap_end) = last'.class
              /\ last'.ret = active_heap_end + HeaderSize
        /\ ~(GrowthStep /\ last'.ok) => active_heap_end' = active_heap_end
      ]_vars

\* Four blocks of two classes lie end to end, one of them on its free list and
\* the others live, and the last call was a growth.
C17_Witness ==
    /\ Len(carved) >= 4
    /\ \E i, j \in DOMAIN carved : carved[i].class # carved[j].class
    /\ \E i \in DOMAIN carved : OnFreeList(carved[i].addr, carved[i].class)
    /\ \E i \in DOMAIN carved : IsLive(carved[i].addr)
    /\ PooledReturned /\ last.src = "carved"

\* Every free list but that of class c is as it was.
OtherListsUnchanged(c) == \A d \in ClassRange \ {c} : free_lists'[d] = free_lists[d]

\* C19: a pooled allocate served from a free list and a free of a pooled block
\* leave the cursors and prefer_commit_strategy alone, change no free list but
\* that of the block's class and make no kernel call; an external allocate
\* and a free of an external allocation leave the cursors,
\* prefer_commit_strategy and every free list alone.
C19_OnlyGrowthMovesCursors ==
    [][ /\ ( /\ last'.op = "alloc" /\ last'.path = "subheap"
             /\ free_lists[last'.class] # NULL ) =>
              /\ UNCHANGED << active_heap_end, commited_heap_end, prefer_commit_strategy >>
              /\ OtherListsUnchanged(last'.class)
              /\ last'.calls = << >>
        /\ (last'.op = "free" /\ last'.kind = "pooled") =>
              /\ UNCHANGED << active_heap_end, commited_heap_end, prefer_commit_strategy >>
              /\ OtherListsUnchanged(live[last'.ptr].class)
              /\ free_lists'[live[last'.ptr].class] = last'.ptr - HeaderSize
              /\ last'.calls = << >>
        /\ (last'.op = "alloc" /\ last'.path = "external") =>
              UNCHANGED AllocatorFields
        /\ (last'.op = "free" /\ last'.kind = "external") =>
              UNCHANGED AllocatorFields
      ]_vars

(***************************************************************************)
(* Properties of the commit strategy.                                      *)
(***************************************************************************)
\* C18: a commit with prefer_commit_strategy = Mprotect calls mprotect first
\* and mmap(MAP_FIXED) only when mprotect has failed; a commit with
\* prefer_commit_strategy = MmapFixed calls mmap(MAP_FIXED) alone.  The growth
\* succeeds when one of the calls does, and prefer_commit_strategy is then the
\* strategy of the call that worked; when all fail the growth fails and
\* prefer_commit_strategy keeps its value.
C18_CommitRemembersStrategy ==
    [][ (GrowthStep /\ NeedsCommit(last'.class)) =>
          /\ (prefer_commit_strategy = Mprotect) =>
                /\ Len(last'.calls) >= 1
                /\ last'.calls[1].fn = "mprotect"
                /\ last'.calls[1].ok =>
                      /\ Len(last'.calls) = 1
                      /\ last'.ok
                      /\ prefer_commit_strategy' = Mprotect
                /\ ~last'.calls[1].ok =>
                      /\ Len(last'.calls) = 2
                      /\ last'.calls[2].fn = "mmap_fixed"
                      /\ last'.calls[2].len = last'.calls[1].len
                      /\ last'.calls[2].ok =>
                            last'.ok /\ prefer_commit_strategy' = MmapFixed
                      /\ ~last'.calls[2].ok =>
                            ~last'.ok /\ prefer_commit_strategy' = Mprotect
          /\ (prefer_commit_strategy = MmapFixed) =>
                /\ Len(last'.calls) = 1
                /\ last'.calls[1].fn = "mmap_fixed"
                /\ last'.ok = last'.calls[1].ok
                /\ prefer_commit_strategy' = MmapFixed
      ]_vars

\* A growth whose mprotect failed and whose fixed remap worked: the allocate
\* succeeded and MmapFixed is now preferred.
C18_Witness ==
    /\ PooledReturned /\ last.src = "carved"
    /\ Len(last.calls) = 2
    /\ last.calls[1].fn = "mprotect" /\ ~last.calls[1].ok
    /\ last.calls[2].fn = "mmap_fixed" /\ last.calls[2].ok
    /\ prefer_commit_strategy = MmapFixed

\* C20: prefer_commit_strategy starts as Mprotect; a commit that worked by
\* mmap(MAP_FIXED) after its mprotect failed makes it MmapFixed; once it is
\* MmapFixed it stays MmapFixed, and no later call of allocate or free makes
\* an mprotect call.
C20_DowngradeIsPermanent ==
    [][ /\ (last.op = "init") => prefer_commit_strategy = Mprotect
        /\ ( /\ last'.op = "alloc"
             /\ \E i \in DOMAIN last'.calls :
                   last'.calls[i].fn = "mmap_fixed" /\ last'.calls[i].ok ) =>
              prefer_commit_strategy' = MmapFixed
        /\ (prefer_commit_strategy = MmapFixed) =>
              /\ prefer_commit_strategy' = MmapFixed
              /\ \A i \in DOMAIN last'.calls : last'.calls[i].fn # "mprotect"
      ]_vars

\* With MmapFixed preferred, a growth has asked for its commit by
\* mmap(MAP_FIXED) alone.
C20_Witness ==
    /\ prefer_commit_strategy = MmapFixed
    /\ carved # << >>
    /\ last.op = "alloc" /\ last.path = "subheap"
    /\ Len(last.calls) = 1
    /\ last.calls[1].fn = "mmap_fixed"
    /\ last.calls[1].addr = commited_heap_end

====
